---- MODULE Spec2Model ----
(***************************************************************************)
(* OBEX client: the session state machine of obexd/client/session.c on top *)
(* of the Bluetooth transport of obexd/client/bluetooth.c.                 *)
(*                                                                         *)
(* Every C function is an operator from a program state (a record holding  *)
(* all globals and heap objects) to the program state it leaves, so that a *)
(* handler's nested calls (callback -> unref -> free -> disconnect -> ...) *)
(* are part of the one action that models the handler.                     *)
(***************************************************************************)
EXTENDS Integers, Sequences, FiniteSets, TLC

\* ------------------------------------------------------------- bounds
MaxCreates == 2      \* obc_session_create calls that reach session_connect
MaxConnects == 1     \* the same, where one connection is followed through every stage
MaxTransfers == 2
MaxQueued == 3    \* obc_transfer_register calls
TransferSize == 2    \* obc_transfer_get_size() of every transfer

\* ------------------------------------------------------------- values
NoName == "NULL"                       \* a NULL char pointer
Sources == {NoName}
Destinations == {NoName, "d1"}
Services == {"OPP", "unknown"}         \* obc_driver_find knows "OPP" only
Channels == {0, 1}
Owners == {NoName, "o1"}
AgentNames == {"o1", "o2"}
AgentPaths == {"/agent", "/other"}
Reactions == {"none", "drop"}          \* what the on_connect callback does on an error

SessionIds == 1..MaxCreates            \* struct obc_session objects, by allocation order
ClosureIds == 1..MaxCreates            \* struct callback_data objects
BtIds == 1..MaxCreates                 \* struct bluetooth_session objects, by their id
TransferIds == 1..MaxQueued         \* struct obc_transfer objects

NoPending == [t |-> 0, cb |-> "none"]  \* no struct pending_data
NoAgent == [name |-> NoName, path |-> NoName, pending |-> NoPending]

NoSession ==
    [live |-> "unused", id |-> 0, refcount |-> 0, source |-> NoName,
     destination |-> NoName, service |-> NoName, channel |-> 0,
     owner |-> NoName, watch |-> NoName, obex |-> "none", path |-> FALSE,
     agent |-> NoAgent, callback |-> 0, pending |-> <<>>]

FreedSession == [NoSession EXCEPT !.live = "freed"]

NoClosure ==
    [session |-> 0, state |-> "none", calls |-> 0, err |-> "never",
     found |-> FALSE, twin |-> 0, twinMid |-> FALSE, conn |-> 0]

NoBt ==
    [reg |-> FALSE, port |-> 0, adapter |-> FALSE, call |-> "none",
     sdp |-> FALSE, io |-> "none", ioOpen |-> FALSE, watch |-> "none",
     func |-> 0, calls |-> 0, lastIo |-> "none", lastErr |-> "never",
     failed |-> FALSE, connected |-> FALSE, answer |-> "none", rfcomm |-> 0,
     requested |-> 0, released |-> 0, torn |-> 0, service |-> <<>>]

NoTransfer ==
    [state |-> "unused", session |-> 0, kind |-> "none", hasPath |-> FALSE,
     armed |-> FALSE, starts |-> 0, requests |-> 0, cbCalls |-> 0,
     cbErr |-> "never", agComplete |-> 0, agError |-> 0]

VARIABLES
    sess,       \* session.c: the struct obc_session objects
    sessions,   \* session.c: static GSList *sessions
    cbs,        \* session.c: the struct callback_data closures of session_connect
    bts,        \* bluetooth.c: the struct bluetooth_session objects (reg: in sessions)
    btId,       \* bluetooth.c: static guint id of bluetooth_connect
    xfers,      \* the struct obc_transfer objects registered by the session
    idleQ,      \* GLib idle sources added by g_idle_add, in order
    userRefs,   \* references the caller of obc_session_create still holds
    gone,       \* the D-Bus names that have left the bus
    trace,      \* what the last handler did, in order
    last,       \* the last operation called
    uaf         \* a freed object was used: the behaviour is undefined from here

vars ==
    <<sess, sessions, cbs, bts, btId, xfers, idleQ, userRefs, gone, trace, last, uaf>>

\* The program state as one record, threaded through the functions below.
Cur ==
    [sess |-> sess, sessions |-> sessions, cbs |-> cbs, bts |-> bts,
     btId |-> btId, xfers |-> xfers, idleQ |-> idleQ, userRefs |-> userRefs,
     gone |-> gone, trace |-> <<>>, uaf |-> uaf]

Commit(st, op) ==
    /\ ~uaf
    /\ sess' = st.sess
    /\ sessions' = st.sessions
    /\ cbs' = st.cbs
    /\ bts' = st.bts
    /\ btId' = st.btId
    /\ xfers' = st.xfers
    /\ idleQ' = st.idleQ
    /\ userRefs' = st.userRefs
    /\ gone' = st.gone
    /\ trace' = st.trace
    /\ uaf' = st.uaf
    /\ last' = op

Emit(st, e) == [st EXCEPT !.trace = Append(@, e)]

Without(seq, x) == SelectSeq(seq, LAMBDA y : y # x)     \* g_slist_remove of a unique element

InSeq(seq, x) == \E i \in 1..Len(seq) : seq[i] = x      \* g_slist_find

Live(st, s) == s \in SessionIds /\ st.sess[s].live = "live"

\* ------------------------------------------------------ bluetooth.c

\* A session_destroy without the registry check.
SessionDestroyUnguarded(st, c) ==
    LET b == st.bts[c]
        st1 == IF b.adapter
               THEN Emit([st EXCEPT !.bts[c].released = @ + 1], <<"ReleaseSession", c>>)
               ELSE st
    IN [st1 EXCEPT !.bts[c].reg = FALSE, !.bts[c].torn = @ + 1,
                   !.bts[c].call = "none", !.bts[c].ioOpen = FALSE,
                   !.bts[c].watch = "none"]

\* session_destroy: the registry check makes a second teardown a no-op.
\* pending_req_finalize cancels the outstanding D-Bus call; shutting the
\* channel down makes its watches fire with G_IO_NVAL, and aborts btio's
\* pending connect.
session_destroy(st, c) ==
    IF ~st.bts[c].reg THEN st
    ELSE LET b == st.bts[c]
             st1 == IF b.adapter
                    THEN Emit([st EXCEPT !.bts[c].released = @ + 1],
                              <<"ReleaseSession", c>>)
                    ELSE st
         IN [st1 EXCEPT !.bts[c].reg = FALSE,
                        !.bts[c].torn = @ + 1,
                        !.bts[c].call = "none",
                        !.bts[c].ioOpen = FALSE,
                        !.bts[c].watch = IF b.watch = "rfcomm" \/ b.io = "none"
                                         THEN "none" ELSE b.watch]

bluetooth_disconnect(st, id) ==
    IF id \in BtIds /\ st.bts[id].reg THEN session_destroy(st, id) ELSE st

\* ------------------------------------------------------ session.c

obc_session_ref(st, s) ==
    IF ~Live(st, s) THEN [st EXCEPT !.uaf = TRUE]
    ELSE [st EXCEPT !.sess[s].refcount = @ + 1]

session_unregistered(st, s) ==
    Emit([st EXCEPT !.sess[s].path = FALSE], <<"unregister_interface", s>>)

\* session_free.  g_obex_unref drops the OBEX engine together with its
\* outstanding CONNECT request; the closure of that request never fires.
session_free(st, s) ==
    LET x == st.sess[s]
        st1 == IF x.agent.name # NoName
               THEN Emit(st, <<"agent_release", s>>) ELSE st
        st2 == IF x.id > 0
               THEN bluetooth_disconnect(Emit(st1, <<"disconnect", x.id>>), x.id)
               ELSE st1
        st3 == IF x.path THEN session_unregistered(st2, s) ELSE st2
    IN Emit([st3 EXCEPT
                !.sessions = Without(@, s),
                !.sess[s] = FreedSession,
                !.cbs = [k \in ClosureIds |->
                           IF @[k].session = s /\ @[k].state = "obex"
                           THEN [@[k] EXCEPT !.state = "cancelled"] ELSE @[k]]],
            <<"free", s>>)

obc_session_unref(st, s) ==
    IF ~Live(st, s) THEN [st EXCEPT !.uaf = TRUE]
    ELSE IF st.sess[s].refcount = 1
         THEN session_free([st EXCEPT !.sess[s].refcount = 0], s)
         ELSE [st EXCEPT !.sess[s].refcount = @ - 1]

\* obc_transfer_unregister: the transfer object is freed, its transfer aborted.
obc_transfer_unregister(st, t) ==
    Emit([st EXCEPT !.xfers[t].state = "unregistered", !.xfers[t].armed = FALSE],
         <<"unregister", t>>)

obc_session_add_transfer(st, s, t) ==
    obc_session_ref([st EXCEPT !.sess[s].pending = Append(@, t)], s)

obc_session_remove_transfer(st, s, t) ==
    obc_session_unref(
        obc_transfer_unregister([st EXCEPT !.sess[s].pending = Without(@, t)], t), s)

\* The while loop of obc_session_shutdown over the list it read on entry.
RECURSIVE RemoveAll(_, _, _)
RemoveAll(st, s, l) ==
    IF l = <<>> THEN st
    ELSE RemoveAll(obc_session_remove_transfer(st, s, Head(l)), s, Tail(l))

\* obc_session_shutdown: the pending transfers are unregistered, then the
\* interface, then the transport is disconnected and the id reset.
obc_session_shutdown(st, s) ==
    IF ~Live(st, s) THEN [st EXCEPT !.uaf = TRUE]
    ELSE LET st1 == RemoveAll(obc_session_ref(st, s), s, st.sess[s].pending)
             st2 == IF st1.sess[s].path THEN session_unregistered(st1, s) ELSE st1
             id == st2.sess[s].id
             st3 == IF id > 0
                    THEN [bluetooth_disconnect(Emit(st2, <<"disconnect", id>>), id)
                             EXCEPT !.sess[s].id = 0]
                    ELSE st2
         IN obc_session_unref(st3, s)

\* owner_disconnected: the disconnect watch of the session fired.
owner_disconnected(st, s) == obc_session_shutdown(st, s)

\* obc_agent_request: one Request call at a time per agent (-EBUSY otherwise).
obc_agent_request(st, s, cb, t) ==
    IF st.sess[s].agent.pending # NoPending
    THEN [st |-> st, err |-> "-EBUSY"]
    ELSE [st |-> Emit([st EXCEPT !.sess[s].agent.pending = [t |-> t, cb |-> cb],
                                 !.xfers[t].requests = @ + 1],
                      <<"request", t>>),
          err |-> "0"]

\* session_request: the authorization gate.  Returns the state and the error.
session_request(st, s, cb, t) ==
    IF st.sess[s].agent.name = NoName \/ ~st.xfers[t].hasPath
    THEN [st |-> [st EXCEPT !.idleQ = Append(@, [type |-> "grant", s |-> s,
                                                   t |-> t, cb |-> cb])],
          err |-> "0"]
    ELSE obc_agent_request(st, s, cb, t)

\* The stored callback of the session, called with the terminating transfer.
StoredCallback(st, s, t, gerr) ==
    Emit([st EXCEPT !.xfers[t].cbCalls = @ + 1, !.xfers[t].cbErr = gerr],
         <<"callback", st.sess[s].callback, t, gerr>>)

session_terminate_transfer(st, s, t, gerr) ==
    IF st.sess[s].callback # 0
    THEN LET st1 == StoredCallback(obc_session_ref(st, s), s, t, gerr)
             st2 == IF InSeq(st1.sess[s].pending, t)
                    THEN obc_session_remove_transfer(st1, s, t) ELSE st1
         IN obc_session_unref(st2, s)
    ELSE LET st1 == obc_session_remove_transfer(obc_session_ref(st, s), s, t)
             st2 == IF st1.sess[s].pending # <<>>
                    THEN session_request(st1, s, "put", Head(st1.sess[s].pending)).st
                    ELSE st1
         IN obc_session_unref(st2, s)

AgentSees(st, s, t) == st.sess[s].agent.name # NoName /\ st.xfers[t].hasPath

session_notify_complete(st, s, t) ==
    LET st1 == IF AgentSees(st, s, t)
               THEN Emit([st EXCEPT !.xfers[t].agComplete = @ + 1],
                         <<"agent_complete", t>>)
               ELSE st
    IN session_terminate_transfer(st1, s, t, "none")

session_notify_error(st, s, t, err) ==
    LET st1 == IF AgentSees(st, s, t)
               THEN Emit([st EXCEPT !.xfers[t].agError = @ + 1], <<"agent_error", t>>)
               ELSE st
    IN session_terminate_transfer(st1, s, t, err)

\* session_notify_progress without its comparison with the transfer's size.
SessionNotifyProgressAlwaysCompletes(st, s, t, transferred) ==
    LET st1 == IF AgentSees(st, s, t) THEN Emit(st, <<"agent_progress", t>>) ELSE st
    IN session_notify_complete(st1, s, t)

session_notify_progress(st, s, t, transferred) ==
    LET st1 == IF AgentSees(st, s, t) THEN Emit(st, <<"agent_progress", t>>) ELSE st
    IN IF transferred = TransferSize THEN session_notify_complete(st1, s, t) ELSE st1

transfer_progress(st, s, t, transferred, err) ==
    IF err # "none" THEN session_notify_error(st, s, t, err)
    ELSE session_notify_progress(st, s, t, transferred)

\* session_prepare_get / session_prepare_put: the start entry point is invoked
\* (obc_transfer_get / obc_transfer_put) and returns ret.
session_prepare(st, s, t, cb, ret) ==
    LET st1 == Emit([st EXCEPT !.xfers[t].starts = @ + 1], <<"start", t, cb>>)
    IN IF ret # "0" THEN session_notify_error(st1, s, t, ret)
       ELSE [st1 EXCEPT !.xfers[t].armed = TRUE]

\* --------------------------------------------- session.c: connecting

\* The caller's on_connect callback (callback->func).  On an error the caller
\* may drop the session at once: obc_session_shutdown and obc_session_unref.
OnConnect(st, k, err, react) ==
    LET s == st.cbs[k].session
        st1 == Emit([st EXCEPT !.cbs[k].calls = @ + 1, !.cbs[k].err = err],
                    <<"on_connect", k, err>>)
    IN IF err # "none" /\ react = "drop" /\ st1.userRefs[s] > 0
       THEN obc_session_unref(
                obc_session_shutdown([st1 EXCEPT !.userRefs[s] = @ - 1], s), s)
       ELSE st1

\* The "done" label of transport_func, and the tail of connect_cb and of
\* connection_complete: the callback, then the closure's reference is dropped.
FireClosure(st, k, err, react) ==
    LET s == st.cbs[k].session
    IN obc_session_unref([OnConnect(st, k, err, react) EXCEPT !.cbs[k].state = "done"], s)

\* transport_func: the transport's result callback.
transport_func(st, k, io, err, obexNew, obexConn, react) ==
    LET s == st.cbs[k].session
    IN IF ~Live(st, s) THEN [st EXCEPT !.uaf = TRUE]
       ELSE IF err # "none" THEN FireClosure(st, k, err, react)
       ELSE IF ~obexNew THEN FireClosure(st, k, "none", react)
       ELSE IF ~obexConn THEN FireClosure(st, k, "g_obex_connect failed", react)
       ELSE [st EXCEPT !.sess[s].obex = "handshake",
                       !.sessions = <<s>> \o @,
                       !.cbs[k].state = "obex"]

\* connect_cb: the reply to the OBEX CONNECT request.
connect_cb(st, k, rsp, react) ==
    LET s == st.cbs[k].session
        gerr == IF rsp = "success" THEN "none" ELSE rsp
    IN IF ~Live(st, s) THEN [st EXCEPT !.uaf = TRUE]
       ELSE FireClosure([st EXCEPT !.sess[s].obex =
                            IF rsp = "success" THEN "connected" ELSE "failed"],
                        k, gerr, react)

\* connection_complete without its obc_session_unref.
ConnectionCompleteKeepsReference(st, k) ==
    IF ~Live(st, st.cbs[k].session) THEN [st EXCEPT !.uaf = TRUE]
    ELSE [OnConnect(st, k, "none", "none") EXCEPT !.cbs[k].state = "done"]

connection_complete(st, k) ==
    IF ~Live(st, st.cbs[k].session) THEN [st EXCEPT !.uaf = TRUE]
    ELSE FireClosure(st, k, "none", "none")

session_find_matches(x, source, destination, service, channel, owner) ==
    /\ x.destination = destination
    /\ service = x.service
    /\ (source = NoName \/ x.source = source)
    /\ (channel = 0 \/ x.channel = channel)
    /\ owner = x.owner

\* session_find: the first session of the registry that matches, or 0.
session_find(st, source, destination, service, channel, owner) ==
    LET hits == SelectSeq(st.sessions, LAMBDA s :
                    session_find_matches(st.sess[s], source, destination,
                                         service, channel, owner))
    IN IF hits = <<>> THEN 0 ELSE Head(hits)

\* A service UUID string, as the lengths of its hex groups joined by '-'.
DriverUuid == <<8, 4, 4, 4, 12>>        \* driver->uuid, "00001105-0000-1000-8000-00805f9b34fb"

\* The strings a caller of the transport's connect may pass as the service: a
\* canonical UUID, a short-form one ("1105"), one with a group missing.
ServiceUuids == {DriverUuid, <<4>>, <<8, 4, 4, 12>>}

\* bluetooth_connect: returns the state and the id (0: could not be started).
\* busOk: g_dbus_setup_bus and send_method_call succeeded.
bluetooth_connect(st, source, destination, service, port, k, busOk) ==
    IF destination = NoName THEN [st |-> st, id |-> 0]
    ELSE LET id == st.btId + 1
             st1 == [st EXCEPT !.btId = id]
         IN IF ~busOk THEN [st |-> st1, id |-> 0]
            ELSE [st |-> Emit([st1 EXCEPT !.bts[id] =
                                  [NoBt EXCEPT !.reg = TRUE, !.port = port,
                                               !.call = "manager", !.func = k,
                                               !.service = service]],
                              <<"connect", id>>),
                  id |-> id]

\* session_connect of session.c: returns the state and the error.
session_connect(st, s, k, busOk) ==
    LET x == st.sess[s]
        st1 == obc_session_ref([st EXCEPT !.cbs[k].session = s,
                                          !.cbs[k].state = "new"], s)
    IN IF x.obex # "none"
       THEN [st |-> [st1 EXCEPT !.idleQ = Append(@, [type |-> "conn", s |-> s,
                                                     t |-> k, cb |-> "none"]),
                                !.cbs[k].state = "idle"],
             err |-> "0"]
       ELSE IF x.id > 0
       THEN [st |-> [st1 EXCEPT !.cbs[k].state = "waiting"], err |-> "0"]
       ELSE LET r == bluetooth_connect(st1, x.source, x.destination, DriverUuid,
                                       x.channel, k, busOk)
            IN IF r.id = 0
               THEN [st |-> [obc_session_unref(r.st, s) EXCEPT !.cbs[k].state = "done"],
                     err |-> "-EINVAL"]
               ELSE [st |-> [r.st EXCEPT !.sess[s].id = r.id,
                                         !.cbs[k].state = "transport",
                                         !.cbs[k].conn = r.id],
                     err |-> "0"]

\* obc_session_set_owner
obc_session_set_owner(st, s, name) ==
    [st EXCEPT !.sess[s].watch = name, !.sess[s].owner = name]

KnownService(service) == service = "OPP"        \* obc_driver_find(service) != NULL

\* obc_session_create: returns the state and the session (0: NULL).
obc_session_create(st, source, destination, service, channel, owner, k, busOk) ==
    IF destination = NoName THEN [st |-> st, ret |-> 0]
    ELSE LET found == session_find(st, source, destination, service, channel, owner)
             fresh == [NoSession EXCEPT !.live = "live", !.refcount = 1,
                                        !.source = source,
                                        !.destination = destination,
                                        !.service = service, !.channel = channel]
             st1 == [st EXCEPT !.sess[k] = fresh, !.userRefs[k] = 1]
             st2 == IF owner # NoName THEN obc_session_set_owner(st1, k, owner) ELSE st1
             s == IF found # 0 THEN found ELSE k
             r == session_connect(IF found # 0 THEN st ELSE st2, s, k, busOk)
         IN IF found = 0 /\ ~KnownService(service) THEN [st |-> st, ret |-> 0]
            ELSE IF r.err # "0"
                 THEN [st |-> [obc_session_unref(r.st, s) EXCEPT !.userRefs[s] = 0],
                       ret |-> 0]
                 ELSE [st |-> r.st, ret |-> s]

\* ---------------------------------------------- bluetooth.c: handlers

\* session->func(io, err, session->user_data): the result callback, which is
\* transport_func of session.c for a connection made by session_connect
\* (func 0: a connection made by another user of the transport).
ResultCallback(st, c, io, err, obexNew, obexConn, react) ==
    LET st1 == Emit([st EXCEPT !.bts[c].calls = @ + 1, !.bts[c].lastIo = io,
                               !.bts[c].lastErr = err],
                    <<"func", c, io, err>>)
    IN IF st.bts[c].func = 0 THEN st1
       ELSE transport_func(st1, st.bts[c].func, io, err, obexNew, obexConn, react)

\* The "failed" label of manager_reply, adapter_reply, service_callback and
\* search_callback: the callback with the error, then session_destroy.
FailConnection(st, c, err, react) ==
    session_destroy(
        ResultCallback([st EXCEPT !.bts[c].failed = TRUE], c, "none", err,
                       TRUE, TRUE, react), c)

\* rfcomm_connect: bt_io_connect returns the channel or NULL.
rfcomm_connect(st, c, ok) ==
    Emit([st EXCEPT !.bts[c].rfcomm = @ + 1,
                    !.bts[c].io = IF ok THEN "rfcomm" ELSE "none",
                    !.bts[c].ioOpen = ok,
                    !.bts[c].watch = IF ok THEN "rfcomm" ELSE "none"],
         <<"rfcomm_connect", c>>)

\* service_connect: sdp_connect and the watch that runs service_callback.
service_connect(st, c, ok) ==
    IF ok THEN [st EXCEPT !.bts[c].sdp = TRUE, !.bts[c].io = "sdp",
                          !.bts[c].ioOpen = TRUE, !.bts[c].watch = "service"]
    ELSE st

\* session_connect of bluetooth.c: returns the state and the error.
bt_session_connect(st, c, ok) ==
    [st |-> IF st.bts[c].port > 0 THEN rfcomm_connect(st, c, ok)
            ELSE service_connect(st, c, ok),
     err |-> IF ok THEN "0" ELSE IF st.bts[c].port > 0 THEN "-EINVAL" ELSE "-ENOMEM"]

\* manager_reply.  reply: "error", "noargs" (no object path in it) or "ok";
\* sendOk: send_method_call of RequestSession returned a request.
manager_reply(st, c, reply, sendOk, react) ==
    LET st1 == [st EXCEPT !.bts[c].call = "none"]
        st2 == [st1 EXCEPT !.bts[c].adapter = TRUE]
    IN IF reply = "error" \/ reply = "noargs"
       THEN FailConnection(st1, c, "No adapter found", react)
       ELSE IF ~sendOk THEN FailConnection(st2, c, "No adapter found", react)
       ELSE Emit([st2 EXCEPT !.bts[c].call = "adapter", !.bts[c].requested = @ + 1],
                 <<"RequestSession", c>>)

\* adapter_reply.  ok: the reply is no error; connOk: session_connect started.
adapter_reply(st, c, ok, connOk, react) ==
    LET st1 == [st EXCEPT !.bts[c].call = "none"]
        r == bt_session_connect(st1, c, connOk)
    IN IF ~ok THEN FailConnection(st1, c, "Unable to request session", react)
       ELSE IF r.err # "0"
            THEN FailConnection(r.st, c, "Unable to request session", react)
            ELSE r.st

\* The records of an SDP response, as search_callback's loop sees each:
\* sdp_extract_pdu's result (rec NULL, recsize 0) and, for a record, whether it
\* has an access-protocol list and the port sdp_get_proto_port finds in it.
SdpRecords ==
    {[rec |-> FALSE, recsize |-> 0, protos |-> FALSE, port |-> 0],
     [rec |-> TRUE, recsize |-> 0, protos |-> FALSE, port |-> 0],
     [rec |-> TRUE, recsize |-> 1, protos |-> FALSE, port |-> 0],
     [rec |-> TRUE, recsize |-> 1, protos |-> TRUE, port |-> 0],
     [rec |-> TRUE, recsize |-> 1, protos |-> TRUE, port |-> 3],
     [rec |-> TRUE, recsize |-> 1, protos |-> TRUE, port |-> 256]}

SdpResponses == {<<>>} \cup {<<r>> : r \in SdpRecords}
                       \cup {<<r, q>> : r \in SdpRecords, q \in SdpRecords}

SdpHeaders == {"ok", "status", "type", "seqlen"}

\* A scan that falls back to channel 1 when it finds none.
ScanRecordsDefaultChannel(recs) == 1

\* The do-while loop of search_callback: the channel it leaves (uint8_t).
RECURSIVE ScanRecords(_)
ScanRecords(recs) ==
    IF recs = <<>> THEN 0
    ELSE LET r == Head(recs)
             ch == IF r.protos THEN r.port ELSE -1
         IN IF ~r.rec \/ r.recsize = 0 THEN 0
            ELSE IF ch > 0 THEN ch % 256
            ELSE ScanRecords(Tail(recs))

\* search_callback: the SDP query's result.
search_callback(st, c, hdr, recs, rfcommOk, react) ==
    LET channel == IF hdr # "ok" \/ recs = <<>> THEN 0 ELSE ScanRecords(recs)
        st1 == rfcomm_connect([st EXCEPT !.bts[c].port = channel], c, rfcommOk)
        st2 == IF channel = 0 THEN st ELSE st1
    IN IF channel # 0 /\ rfcommOk THEN [st1 EXCEPT !.bts[c].sdp = FALSE]
       ELSE FailConnection([st2 EXCEPT !.bts[c].io = "none", !.bts[c].ioOpen = FALSE,
                                       !.bts[c].watch = "none"],
                           c, "Unable to find service record", react)

\* bt_string2uuid on a string made of hex groups of the given lengths joined by
\* '-': sscanf("%08x-%04hx-%04hx-%04hx-%08x%04hx") must convert all six.
bt_string2uuid(groups) ==
    /\ Len(groups) = 5
    /\ groups[1] \in 1..8
    /\ \A i \in 2..4 : groups[i] \in 1..4
    /\ groups[5] >= 9

\* service_callback without its test of G_IO_NVAL.
ServiceCallbackIgnoresNval(st, c, cond, queryOk, react) ==
    IF "ERR" \in cond \/ ~queryOk \/ ~bt_string2uuid(st.bts[c].service)
    THEN FailConnection([st EXCEPT !.bts[c].io = "none", !.bts[c].ioOpen = FALSE,
                                   !.bts[c].watch = "none"],
                        c, "Unable to find service record", react)
    ELSE [st EXCEPT !.bts[c].watch = "process"]

\* service_callback: the SDP socket is connected (or failed).
service_callback(st, c, cond, queryOk, react) ==
    IF "NVAL" \in cond
    THEN [st EXCEPT !.bts[c].watch = "none", !.bts[c].failed = @ \/ st.bts[c].reg]
    ELSE IF "ERR" \in cond \/ ~queryOk
              \/ ~bt_string2uuid(st.bts[c].service)
         THEN FailConnection([st EXCEPT !.bts[c].io = "none", !.bts[c].ioOpen = FALSE,
                                        !.bts[c].watch = "none"],
                             c, "Unable to find service record", react)
         ELSE [st EXCEPT !.bts[c].watch = "process"]

\* process_callback: the SDP socket is readable (or failed).  sdp_process
\* either waits for more of the response, or ends the query by calling
\* search_callback and returns < 0.
process_callback(st, c, cond, done, hdr, recs, rfcommOk, react) ==
    IF cond \cap {"ERR", "HUP", "NVAL"} # {}
    THEN [st EXCEPT !.bts[c].watch = "none", !.bts[c].failed = @ \/ st.bts[c].reg]
    ELSE IF ~done THEN st
    ELSE search_callback([st EXCEPT !.bts[c].watch = "none"], c, hdr, recs,
                         rfcommOk, react)

\* An rfcomm_callback that reports its result twice.
RfcommCallbackCallsTwice(st, c, err, obexNew, obexConn, react) ==
    LET st1 == ResultCallback([st EXCEPT !.bts[c].watch = "none",
                                         !.bts[c].connected = (err = "none")],
                              c, "rfcomm", err, obexNew, obexConn, react)
    IN [st1 EXCEPT !.bts[c].calls = @ + 1]

\* rfcomm_callback: the RFCOMM connect ended.
rfcomm_callback(st, c, err, obexNew, obexConn, react) ==
    LET st1 == ResultCallback([st EXCEPT !.bts[c].watch = "none",
                                         !.bts[c].failed = @ \/ (err # "none"),
                                         !.bts[c].connected = (err = "none")],
                              c, "rfcomm", err, obexNew, obexConn, react)
    IN IF err # "none" THEN session_destroy(st1, c) ELSE st1

\* ------------------------------------------- session.c: the transfers

\* obc_transfer_register for a call of the given kind; path: whether the
\* transfer is exposed with an object path (not for x-obex/ and x-bt/ types).
obc_transfer_register(st, s, t, kind, path) ==
    [st EXCEPT !.xfers[t] = [NoTransfer EXCEPT !.state = "registered",
                                               !.session = s, !.kind = kind,
                                               !.hasPath = path]]

\* obc_session_get and obc_session_pull: return the state and the error.
obc_session_get(st, s, t, kind, path, func) ==
    LET st1 == obc_transfer_register(st, s, t, kind, path)
        st2 == IF func THEN [st1 EXCEPT !.sess[s].callback = t] ELSE st1
        r == session_request(st2, s, "get", t)
    IN IF st.sess[s].obex = "none" THEN [st |-> st, err |-> "-ENOTCONN"]
       ELSE IF r.err # "0"
            THEN [st |-> obc_transfer_unregister(r.st, t), err |-> r.err]
            ELSE [st |-> obc_session_add_transfer(r.st, s, t), err |-> "0"]

\* obc_session_send.  fileOk: obc_transfer_set_file opened the file.
obc_session_send(st, s, t, fileOk) ==
    LET st1 == obc_transfer_register(st, s, t, "send", TRUE)
        r == session_request(st1, s, "put", t)
    IN IF st.sess[s].obex = "none" THEN [st |-> st, err |-> "-ENOTCONN"]
       ELSE IF ~fileOk
            THEN [st |-> obc_transfer_unregister(st1, t), err |-> "-EIO"]
       ELSE IF st.sess[s].pending # <<>>
            THEN [st |-> obc_session_add_transfer(st1, s, t), err |-> "0"]
       ELSE IF r.err # "0"
            THEN [st |-> obc_transfer_unregister(r.st, t), err |-> r.err]
            ELSE [st |-> obc_session_add_transfer(r.st, s, t), err |-> "0"]

\* obc_session_put: the transfer is registered and its authorization requested;
\* the function never calls obc_session_add_transfer.
obc_session_put(st, s, t) ==
    LET st1 == obc_transfer_register(st, s, t, "put", TRUE)
        r == session_request(st1, s, "put", t)
    IN IF st.sess[s].obex = "none" THEN [st |-> st, err |-> "-ENOTCONN"]
       ELSE IF st.sess[s].pending # <<>> THEN [st |-> st, err |-> "-EISCONN"]
       ELSE r

\* session_request_proceed and the success branch of session_request_reply:
\* pending->cb(session, NULL, transfer).
PendingCb(st, s, t, cb, ret) ==
    IF ~Live(st, s) \/ st.xfers[t].state # "registered" THEN [st EXCEPT !.uaf = TRUE]
    ELSE session_prepare(st, s, t, cb, ret)

\* A session_request_reply that reports the agent's error back to the agent.
SessionRequestReplyNotifiesAgent(st, s, ok, ret) ==
    LET p == st.sess[s].agent.pending
        st1 == [st EXCEPT !.sess[s].agent.pending = NoPending]
    IN IF ~ok THEN session_notify_error(st1, s, p.t, "-ECANCELED")
       ELSE PendingCb(st1, s, p.t, p.cb, ret)

\* session_request_reply: the agent's reply to Request.
session_request_reply(st, s, ok, ret) ==
    LET p == st.sess[s].agent.pending
        st1 == [st EXCEPT !.sess[s].agent.pending = NoPending]
    IN IF st.xfers[p.t].state # "registered" THEN [st EXCEPT !.uaf = TRUE]
       ELSE IF ~ok THEN session_terminate_transfer(st1, s, p.t, "-ECANCELED")
       ELSE PendingCb(st1, s, p.t, p.cb, ret)

\* obc_session_register: the session's object path is exposed.
obc_session_register(st, s) == [st EXCEPT !.sess[s].path = TRUE]

\* obc_session_set_agent: returns the state and the error.
obc_session_set_agent(st, s, name, path) ==
    LET st1 == IF st.sess[s].watch = NoName THEN obc_session_set_owner(st, s, name)
               ELSE st
    IN IF st.sess[s].agent.name # NoName THEN [st |-> st, err |-> "-EALREADY"]
       ELSE [st |-> [st1 EXCEPT !.sess[s].agent =
                        [name |-> name, path |-> path, pending |-> NoPending]],
             err |-> "0"]

\* obc_agent_free: the binding is dropped (agent_destroy) and its outstanding
\* Request call cancelled.
obc_agent_free(st, s) == [st EXCEPT !.sess[s].agent = NoAgent]

\* A release_agent that checks the sender only.
ReleaseAgentIgnoresPath(st, s, sender, path) ==
    LET a == st.sess[s].agent
    IN IF a.name = NoName THEN [st |-> st, err |-> "0"]
       ELSE IF sender # a.name THEN [st |-> st, err |-> "NotAuthorized"]
            ELSE [st |-> obc_agent_free(st, s), err |-> "0"]

\* release_agent: returns the state and the D-Bus reply.
release_agent(st, s, sender, path) ==
    LET a == st.sess[s].agent
    IN IF a.name = NoName THEN [st |-> st, err |-> "0"]
       ELSE IF sender # a.name \/ path # a.path
            THEN [st |-> st, err |-> "NotAuthorized"]
            ELSE [st |-> obc_agent_free(st, s), err |-> "0"]

\* The name left the bus: the disconnect watches on it fire, the session's
\* (owner_disconnected) and the agent's own, which drops the binding.
RECURSIVE NameOwnerGone(_, _, _)
NameOwnerGone(st, name, s) ==
    IF s \notin SessionIds THEN st
    ELSE LET st1 == IF Live(st, s) /\ st.sess[s].watch = name
                    THEN owner_disconnected(st, s) ELSE st
             st2 == IF Live(st1, s) /\ st1.sess[s].agent.name = name
                    THEN obc_agent_free(st1, s) ELSE st1
         IN NameOwnerGone(st2, name, s + 1)

\* ------------------------------------------------------------ actions

\* last: the API call just made (with what it returned), the agent's reply or
\* the progress report just delivered, or Event for another handler.
Event == [op |-> "event", s |-> 0, t |-> 0, ret |-> "0", again |-> FALSE, aux |-> 0]

Op(op, s, t, ret) ==
    [op |-> op, s |-> s, t |-> t, ret |-> ret,
     again |-> (op = "shutdown" /\ last.op = op /\ last.s = s), aux |-> 0]

FreshClosure == Cardinality({k \in ClosureIds : cbs[k].state # "none"}) + 1

FreshTransfer == Cardinality({t \in TransferIds : xfers[t].state # "unused"}) + 1

\* The earliest live session with exactly this tuple, or 0.
Twin(source, destination, service, channel, owner) ==
    LET same == {s \in SessionIds :
                    /\ sess[s].live = "live"
                    /\ sess[s].source = source
                    /\ sess[s].destination = destination
                    /\ sess[s].service = service
                    /\ sess[s].channel = channel
                    /\ sess[s].owner = owner}
    IN IF same = {} THEN 0 ELSE CHOOSE s \in same : \A q \in same : s <= q

\* Whether the transport connect of session s is in flight.
MidConnect(s) == \E j \in ClosureIds : cbs[j].session = s /\ cbs[j].state = "transport"

CreateUpTo(n, channels) ==
    \E source \in Sources, destination \in Destinations, service \in Services,
       channel \in channels, owner \in Owners, busOk \in BOOLEAN :
        /\ FreshClosure <= n
        /\ LET k == FreshClosure
               twin == Twin(source, destination, service, channel, owner)
               r == obc_session_create(Cur, source, destination, service, channel,
                                       owner, k, busOk)
               st == IF r.st.cbs[k].state = "none" THEN r.st
                     ELSE [r.st EXCEPT !.cbs[k].found = (r.ret # 0 /\ r.ret # k),
                                       !.cbs[k].twin = twin,
                                       !.cbs[k].twinMid = (twin # 0 /\ MidConnect(twin))]
           IN Commit(st, [Op("create", r.ret, k, r.ret) EXCEPT
                            !.aux = IF twin = 0 THEN 0 ELSE sess[twin].refcount])

AssignAgent ==
    \E s \in SessionIds, sender \in AgentNames \ gone :
        /\ Live(Cur, s)
        /\ sess[s].path
        /\ LET r == obc_session_set_agent(Cur, s, sender, "/agent")
           IN Commit(Emit(r.st, <<"AssignAgent", sender, "/agent">>),
                     Op("assign", s, 0, r.err))

ReleaseAgent ==
    \E s \in SessionIds, sender \in AgentNames \ gone, path \in AgentPaths :
        /\ Live(Cur, s)
        /\ sess[s].path
        /\ LET r == release_agent(Cur, s, sender, path)
           IN Commit(Emit(r.st, <<"ReleaseAgent", sender, path>>),
                     Op("release", s, 0, r.err))

\* obc_session_get or obc_session_pull (the two differ in the transfer's
\* parameters only) as the session's n-th transfer at most.
Get(n) ==
    \E s \in SessionIds, path \in BOOLEAN, func \in BOOLEAN :
        /\ userRefs[s] > 0
        /\ FreshTransfer <= n
        /\ IF ~Live(Cur, s) THEN Commit([Cur EXCEPT !.uaf = TRUE], Op("get", s, 0, "uaf"))
           ELSE LET r == obc_session_get(Cur, s, FreshTransfer, "get", path, func)
                IN Commit(r.st, Op("get", s, FreshTransfer, r.err))

Send(n) ==
    \E s \in SessionIds, fileOk \in BOOLEAN :
        /\ userRefs[s] > 0
        /\ FreshTransfer <= n
        /\ IF ~Live(Cur, s) THEN Commit([Cur EXCEPT !.uaf = TRUE], Op("send", s, 0, "uaf"))
           ELSE LET r == obc_session_send(Cur, s, FreshTransfer, fileOk)
                IN Commit(r.st, Op("send", s, FreshTransfer, r.err))

Put(n) ==
    \E s \in SessionIds :
        /\ userRefs[s] > 0
        /\ FreshTransfer <= n
        /\ IF ~Live(Cur, s) THEN Commit([Cur EXCEPT !.uaf = TRUE], Op("put", s, 0, "uaf"))
           ELSE LET r == obc_session_put(Cur, s, FreshTransfer)
                IN Commit(r.st, Op("put", s, FreshTransfer, r.err))

Shutdown ==
    \E s \in SessionIds :
        /\ userRefs[s] > 0
        /\ Commit(obc_session_shutdown(Cur, s), Op("shutdown", s, 0, "0"))

Unref ==
    \E s \in SessionIds :
        /\ userRefs[s] > 0
        /\ Commit(obc_session_unref([Cur EXCEPT !.userRefs[s] = @ - 1], s),
                  Op("unref", s, 0, "0"))

\* The transport's connect entry point called with a service string of any
\* shape (obc_transport.connect is bluetooth_connect).
TransportConnect ==
    \E destination \in Destinations, service \in ServiceUuids, port \in Channels,
       busOk \in BOOLEAN :
        /\ btId < MaxCreates
        /\ LET r == bluetooth_connect(Cur, NoName, destination, service, port, 0, busOk)
           IN Commit(r.st, Op("connect", 0, r.id, IF r.id = 0 THEN "failed" ELSE "0"))

\* The transport's disconnect entry point.
TransportDisconnect ==
    \E id \in BtIds :
        /\ id <= btId
        /\ Commit(bluetooth_disconnect(Emit(Cur, <<"disconnect", id>>), id),
                  Op("disconnect", 0, id, "0"))

\* A client of the bus, a session's owner or an agent's, disconnects.
NameVanishes ==
    \E name \in AgentNames \ gone :
        Commit([NameOwnerGone(Cur, name, 1) EXCEPT !.gone = @ \cup {name}],
               Op("vanish", 0, 0, name))

StartResults == {"0", "-EIO"}      \* what obc_transfer_get / obc_transfer_put return

SessionRequestProceed ==
    \E ret \in StartResults :
        /\ idleQ # <<>>
        /\ Head(idleQ).type = "grant"
        /\ LET g == Head(idleQ)
           IN Commit(PendingCb([Cur EXCEPT !.idleQ = Tail(@)], g.s, g.t, g.cb, ret),
                     Event)

ConnectionComplete ==
    /\ idleQ # <<>>
    /\ Head(idleQ).type = "conn"
    /\ LET g == Head(idleQ)
       IN Commit(connection_complete([Cur EXCEPT !.idleQ = Tail(@)], g.t),
                 Event)

AgentReply ==
    \E s \in SessionIds :
        /\ Live(Cur, s)
        /\ sess[s].agent.pending # NoPending
        /\ LET t == sess[s].agent.pending.t
           IN \/ Commit(session_request_reply(Cur, s, FALSE, "0"),
                        Op("reply", s, t, "error"))
              \/ \E ret \in StartResults :
                    Commit(session_request_reply(Cur, s, TRUE, ret),
                           Op("reply", s, t, "ok"))

\* The transfer reports progress, or an error, through transfer_progress; a
\* transfer that reported its full size or an error reports nothing more.
TransferProgress ==
    \E t \in TransferIds :
        /\ xfers[t].armed
        /\ LET s == xfers[t].session
               on == [Cur EXCEPT !.xfers[t].armed = TRUE]
               off == [Cur EXCEPT !.xfers[t].armed = FALSE]
           IN IF ~Live(Cur, s)
              THEN Commit([Cur EXCEPT !.uaf = TRUE], Event)
              ELSE \/ \E transferred \in 1..(TransferSize - 1) :
                        Commit(transfer_progress(on, s, t, transferred, "none"),
                               Op("progress", s, t, "tick"))
                   \/ Commit(transfer_progress(off, s, t, TransferSize, "none"),
                             Op("progress", s, t, "complete"))
                   \/ Commit(transfer_progress(off, s, t, 0, "-EIO"),
                             Op("progress", s, t, "error"))

ManagerReply ==
    \E c \in BtIds :
        /\ bts[c].reg
        /\ bts[c].call = "manager"
        /\ \/ \E reply \in {"error", "noargs"}, react \in Reactions :
                Commit(manager_reply(Cur, c, reply, TRUE, react),
                       Event)
           \/ \E react \in Reactions :
                Commit(manager_reply(Cur, c, "ok", FALSE, react),
                       Event)
           \/ Commit(manager_reply(Cur, c, "ok", TRUE, "none"),
                     Event)

AdapterReply ==
    \E c \in BtIds :
        /\ bts[c].reg
        /\ bts[c].call = "adapter"
        /\ \/ \E ok \in BOOLEAN, react \in Reactions :
                Commit(adapter_reply(Cur, c, ok, FALSE, react),
                       Event)
           \/ Commit(adapter_reply(Cur, c, TRUE, TRUE, "none"),
                     Event)

\* The conditions a watch can report; G_IO_NVAL alone on a channel shut down.
Conds(c, ready) ==
    IF bts[c].ioOpen THEN {{ready}, {"HUP"}, {"ERR"}, {"ERR", "HUP"}, {"NVAL"}}
    ELSE {{"NVAL"}}

ServiceCallback ==
    \E c \in BtIds :
        /\ bts[c].watch = "service"
        /\ \/ \E cond \in Conds(c, "OUT"), queryOk \in BOOLEAN, react \in Reactions :
                /\ "NVAL" \in cond \/ "ERR" \in cond \/ ~queryOk
                /\ Commit(service_callback(Cur, c, cond, queryOk, react),
                          Event)
           \/ \E cond \in Conds(c, "OUT") :
                /\ cond \cap {"NVAL", "ERR"} = {}
                /\ Commit(service_callback(Cur, c, cond, TRUE, "none"),
                          Event)

\* Whether no record of the response carries an RFCOMM channel above 0.
NoChannel(recs) == \A i \in 1..Len(recs) : ~recs[i].protos \/ recs[i].port <= 0

\* The SDP socket's watch fires: with a failure condition, with part of the
\* response, or with the whole response (answer: what its records carry).
ProcessCallback ==
    \E c \in BtIds :
        /\ bts[c].watch = "process"
        /\ \/ \E cond \in Conds(c, "IN") \ {{"IN"}} :
                Commit(process_callback(Cur, c, cond, FALSE, "ok", <<>>, FALSE, "none"),
                       Event)
           \/ /\ bts[c].ioOpen
              /\ Commit(process_callback(Cur, c, {"IN"}, FALSE, "ok", <<>>, FALSE, "none"),
                        Event)
           \/ /\ bts[c].ioOpen
              /\ \E hdr \in SdpHeaders \ {"ok"}, react \in Reactions :
                    Commit(process_callback(Cur, c, {"IN"}, TRUE, hdr, <<>>, FALSE, react),
                           Event)
           \/ /\ bts[c].ioOpen
              /\ \E recs \in SdpResponses :
                    LET st == [Cur EXCEPT !.bts[c].answer =
                                  IF NoChannel(recs) THEN "nochannel" ELSE "channel"]
                    IN \/ Commit(process_callback(st, c, {"IN"}, TRUE, "ok", recs,
                                                  TRUE, "none"), Event)
                       \/ \E react \in Reactions :
                            Commit(process_callback(st, c, {"IN"}, TRUE, "ok", recs,
                                                    FALSE, react), Event)

RfcommCallback ==
    \E c \in BtIds :
        /\ bts[c].reg
        /\ bts[c].watch = "rfcomm"
        /\ \/ \E react \in Reactions :
                Commit(rfcomm_callback(Cur, c, "Connection refused", TRUE, TRUE, react),
                       Event)
           \/ \E obexNew \in BOOLEAN, obexConn \in BOOLEAN, react \in Reactions :
                Commit(rfcomm_callback(Cur, c, "none", obexNew, obexConn, react),
                       Event)

ConnectCb ==
    \E k \in ClosureIds, rsp \in {"success", "OBEX Connect failed", "io error"},
       react \in Reactions :
        /\ cbs[k].state = "obex"
        /\ Commit(connect_cb(Cur, k, rsp, react), Event)

\* The program before any call: no object allocated, empty registries.
Boot ==
    [sess |-> [s \in SessionIds |-> NoSession], sessions |-> <<>>,
     cbs |-> [k \in ClosureIds |-> NoClosure], bts |-> [c \in BtIds |-> NoBt],
     btId |-> 0, xfers |-> [t \in TransferIds |-> NoTransfer], idleQ |-> <<>>,
     userRefs |-> [s \in SessionIds |-> 0], gone |-> {}, trace |-> <<>>,
     uaf |-> FALSE]

Started(st) ==
    /\ sess = st.sess
    /\ sessions = st.sessions
    /\ cbs = st.cbs
    /\ bts = st.bts
    /\ btId = st.btId
    /\ xfers = st.xfers
    /\ idleQ = st.idleQ
    /\ userRefs = st.userRefs
    /\ gone = st.gone
    /\ trace = <<>>
    /\ uaf = st.uaf
    /\ last = [op |-> "init", s |-> 0, t |-> 0, ret |-> "0", again |-> FALSE, aux |-> 0]

Init == Started(Boot)

\* A session being created, connected through every stage of the transport,
\* and dropped.
Next ==
    \/ CreateUpTo(MaxConnects, Channels)
    \/ Shutdown
    \/ Unref
    \/ ManagerReply
    \/ AdapterReply
    \/ ServiceCallback
    \/ ProcessCallback
    \/ RfcommCallback
    \/ ConnectCb

Spec == Init /\ [][Next]_vars

\* The main loop dispatches every reply that arrived and every watch that is
\* ready; the calls of the session's users are under no obligation.
SpecFair ==
    /\ Spec
    /\ WF_vars(ManagerReply) /\ WF_vars(AdapterReply)
    /\ WF_vars(ServiceCallback) /\ WF_vars(ProcessCallback)
    /\ WF_vars(RfcommCallback) /\ WF_vars(ConnectCb)

\* The transport used on its own: connections of any service string.
NextTransport ==
    \/ TransportConnect
    \/ TransportDisconnect
    \/ ManagerReply
    \/ AdapterReply
    \/ ServiceCallback
    \/ ProcessCallback
    \/ RfcommCallback

SpecTransport == Init /\ [][NextTransport]_vars

\* Sessions being created one after or during the other, on a known channel
\* (no SDP query), connected and dropped.
NextReuse ==
    \/ CreateUpTo(MaxCreates, Channels \ {0})
    \/ Shutdown
    \/ Unref
    \/ ConnectionComplete
    \/ ManagerReply
    \/ AdapterReply
    \/ RfcommCallback
    \/ ConnectCb

SpecReuse == Init /\ [][NextReuse]_vars

\* The main loop dispatches an idle source that is ready.
SpecReuseFair == SpecReuse /\ WF_vars(ConnectionComplete)

\* The program once obc_session_create("d1", "OPP", channel 1) of the given
\* owner has connected: every reply of the connection path was a success.
Connected(owner) ==
    LET st0 == obc_session_create(Boot, NoName, "d1", "OPP", 1, owner, 1, TRUE).st
        st1 == manager_reply(st0, 1, "ok", TRUE, "none")
        st2 == adapter_reply(st1, 1, TRUE, TRUE, "none")
        st3 == rfcomm_callback(st2, 1, "none", TRUE, TRUE, "none")
    IN connect_cb(st3, 1, "success", "none")

\* The connected session once the caller has registered its interface.
Registered(owner) == obc_session_register(Connected(owner), 1)

InitTransfer == \E owner \in Owners : Started(Registered(owner))

\* The transfers of a connected session, and its agent.
NextTransfer ==
    \/ AssignAgent
    \/ ReleaseAgent
    \/ Get(MaxTransfers)
    \/ Send(MaxTransfers)
    \/ Put(MaxTransfers)
    \/ SessionRequestProceed
    \/ AgentReply
    \/ TransferProgress
    \/ Shutdown
    \/ Unref

SpecTransfer == InitTransfer /\ [][NextTransfer]_vars

\* The registered session once the agent "o1" is assigned to it.
Bound(owner) == obc_session_set_agent(Registered(owner), 1, "o1", "/agent").st

InitQueue == Started(Bound(NoName))

\* The queue of a connected session with an agent: up to MaxQueued transfers of
\* obc_session_get, obc_session_pull and obc_session_send.
NextQueue ==
    \/ Get(MaxQueued)
    \/ Send(MaxQueued)
    \/ SessionRequestProceed
    \/ AgentReply
    \/ TransferProgress

SpecQueue == InitQueue /\ [][NextQueue]_vars

\* The connected session, its agents and the clients of the bus that own
\* them: transfers of obc_session_get, obc_session_pull and obc_session_send.
NextOwner ==
    \/ AssignAgent
    \/ ReleaseAgent
    \/ Get(MaxTransfers)
    \/ Send(MaxTransfers)
    \/ SessionRequestProceed
    \/ AgentReply
    \/ TransferProgress
    \/ NameVanishes

SpecOwner == InitTransfer /\ [][NextOwner]_vars

\* --------------------------------------------------------- properties

\* C2: a transport connection one of whose stages failed (a reply with an
\* error, a failure condition on the SDP socket, a failed query or response, a
\* failed RFCOMM connect) has had its result callback invoked exactly once,
\* with an error.
C2_FailureReportedOnce ==
    \A c \in BtIds :
        bts[c].failed => bts[c].calls = 1 /\ bts[c].lastErr \notin {"none", "never"}

\* C3: a transport connection whose RFCOMM connect succeeded has had its result
\* callback invoked exactly once, with the channel and no error, whatever
\* happened to it since (a disconnect included).
C3_SuccessReportedOnce ==
    \A c \in BtIds :
        bts[c].connected =>
            bts[c].calls = 1 /\ bts[c].lastIo = "rfcomm" /\ bts[c].lastErr = "none"

\* A connection that succeeded and was disconnected afterwards.
C3_Witness == \E c \in BtIds : bts[c].connected /\ ~bts[c].reg /\ bts[c].released = 1

\* C7: a connection made with channel 0 whose SDP response carried no RFCOMM
\* channel above 0 has reported "Unable to find service record" and has never
\* called rfcomm_connect.
C7_NoChannelNoRfcomm ==
    \A c \in BtIds :
        bts[c].answer = "nochannel" =>
            /\ bts[c].calls = 1
            /\ bts[c].lastErr = "Unable to find service record"
            /\ bts[c].rfcomm = 0

\* A response of two records, none with a channel, was processed.
C7_Witness ==
    \E c \in BtIds : bts[c].answer = "nochannel" /\ bts[c].port = 0 /\ ~bts[c].reg

\* C5: an obc_session_create that succeeds for the tuple of an earlier session
\* that is still alive returns that session, leaves its reference count one
\* higher than before the call, and starts no transport connection.
C5_SameTupleSameSession ==
    (last.op = "create" /\ last.ret # 0 /\ cbs[last.t].twin # 0) =>
        /\ last.ret = cbs[last.t].twin
        /\ sess[cbs[last.t].twin].refcount = last.aux + 1
        /\ cbs[last.t].conn = 0

\* C6: an obc_session_create made while an earlier session of the same tuple
\* was waiting for its transport's result uses that session, and calls the
\* transport's connect no second time.
C6_MidConnectReused ==
    \A k \in ClosureIds :
        cbs[k].twinMid => cbs[k].session = cbs[k].twin /\ cbs[k].conn = 0

\* The transfers of session s whose start entry point was invoked and that
\* have not terminated.
InFlight(s) ==
    {t \in TransferIds : /\ xfers[t].session = s
                         /\ xfers[t].state = "registered"
                         /\ xfers[t].starts > 0}

\* C1: at most one transfer of a session has been started and has not yet
\* terminated, and it is the head of the session's pending queue.
C1_OneInFlightAtHead ==
    \A s \in SessionIds :
        sess[s].live = "live" =>
            /\ Cardinality(InFlight(s)) <= 1
            /\ \A t \in InFlight(s) :
                    sess[s].pending # <<>> /\ Head(sess[s].pending) = t

\* C4: a second obc_session_shutdown in a row, on a session whose caller still
\* holds its reference, runs on a live session and does nothing: no transfer
\* or interface unregistered, no transport disconnected, and the state the
\* first call left (queue empty, path retracted, id 0) is still there.
C4_ShutdownTwice ==
    (last.op = "shutdown" /\ last.again) =>
        /\ ~uaf
        /\ trace = <<>>
        /\ sess[last.s].pending = <<>>
        /\ ~sess[last.s].path
        /\ sess[last.s].id = 0

\* Whether a, b and c occur in seq in this order.
InOrder(seq, a, b, c) ==
    \E i, j, k \in 1..Len(seq) :
        i < j /\ j < k /\ seq[i] = a /\ seq[j] = b /\ seq[k] = c

\* C8: when the queue of a session with an agent holds two send transfers
\* <<t1, t2>> and t1, approved and started, reports its full size, that step
\* notifies the agent of t1's completion, then removes t1, then requests the
\* authorization of t2, and t2 is not started before the agent approves it.
C8_CompletionAdvancesQueue ==
    [][\A s \in SessionIds, t1, t2 \in TransferIds :
          ( /\ sess[s].agent.name # NoName
            /\ sess[s].pending = <<t1, t2>>
            /\ xfers[t1].kind = "send" /\ xfers[t2].kind = "send"
            /\ xfers[t1].armed
            /\ last' = [op |-> "progress", s |-> s, t |-> t1, ret |-> "complete",
                        again |-> FALSE, aux |-> 0] )
          => /\ InOrder(trace', <<"agent_complete", t1>>, <<"unregister", t1>>,
                        <<"request", t2>>)
             /\ sess'[s].pending = <<t2>>
             /\ sess'[s].agent.pending.t = t2
             /\ xfers'[t2].starts = 0]_vars

\* C9: when the queue holds only a get transfer queued with a completion
\* callback and the agent answers its authorization request with an error,
\* that step never starts the transfer, invokes the stored callback once, with
\* an error, sends the agent no Error and no Complete, and empties the queue.
C9_RejectedGet ==
    [][\A s \in SessionIds, t \in TransferIds :
          ( /\ sess[s].pending = <<t>>
            /\ xfers[t].kind = "get"
            /\ sess[s].callback = t
            /\ last' = [op |-> "reply", s |-> s, t |-> t, ret |-> "error",
                        again |-> FALSE, aux |-> 0] )
          => /\ xfers'[t].starts = 0
             /\ xfers'[t].cbCalls = 1
             /\ xfers'[t].cbErr \notin {"none", "never"}
             /\ xfers'[t].agError = 0 /\ xfers'[t].agComplete = 0
             /\ xfers'[t].state = "unregistered"
             /\ sess'[s].pending = <<>>]_vars

\* The agent rejected the only transfer the session ever had, a get with a
\* callback, and the callback was told.
C9_Witness ==
    /\ last.op = "reply" /\ last.ret = "error"
    /\ FreshTransfer = 2
    /\ xfers[1].kind = "get" /\ xfers[1].cbCalls = 1 /\ xfers[1].requests = 1

\* C10: an obc_session_put made while a transfer of an earlier
\* obc_session_put of the session is started and not terminated returns
\* -EISCONN, registers no transfer and requests no authorization.
C10_SecondPutRejected ==
    (/\ last.op = "put"
     /\ \E t \in InFlight(last.s) : t # last.t /\ xfers[t].kind = "put") =>
        /\ last.ret = "-EISCONN"
        /\ xfers[last.t].state = "unused"
        /\ ~InSeq(trace, <<"request", last.t>>)

\* Whether an authorization of transfer t that ends in session_prepare_put is
\* outstanding for the session x (s) with the idle sources q: a Request sent to
\* the agent, or a deferred grant.
PutAuthorization(x, q, s, t) ==
    \/ x.agent.pending = [t |-> t, cb |-> "put"]
    \/ \E i \in 1..Len(q) : q[i] = [type |-> "grant", s |-> s, t |-> t, cb |-> "put"]

\* Whether any authorization of transfer t is outstanding.
Authorizing(x, q, s, t) ==
    \/ x.agent.pending.t = t
    \/ \E i \in 1..Len(q) : q[i].type = "grant" /\ q[i].s = s /\ q[i].t = t

\* C11: a step in which a transfer leaves the pending queue of a session that
\* stays alive, through session_terminate_transfer (completion, transfer error,
\* start failure or agent rejection), and leaves at the head of the queue a
\* transfer whose authorization was not requested yet, ends with an
\* authorization of that head outstanding that leads to its put-start entry
\* point, whether the session has a stored completion callback or not.
C11_TerminationRequestsNext ==
    [][\A s \in SessionIds, t \in TransferIds :
          ( /\ InSeq(sess[s].pending, t)
            /\ last'.op \in {"reply", "progress", "event"}
            /\ sess'[s].live = "live"
            /\ ~InSeq(sess'[s].pending, t)
            /\ sess'[s].pending # <<>>
            /\ ~Authorizing(sess[s], idleQ, s, Head(sess'[s].pending)) )
          => PutAuthorization(sess'[s], idleQ', s, Head(sess'[s].pending))]_vars

\* A step that terminates the registered transfer t of session s with an
\* error: the agent rejected it, a progress report carried an error, or its
\* start entry point was invoked and failed.
TransferFailed(s, t) ==
    /\ xfers[t].session = s
    /\ xfers[t].state = "registered"
    /\ xfers'[t].state = "unregistered"
    /\ \/ last'.op \in {"reply", "progress"} /\ last'.t = t /\ last'.ret = "error"
       \/ \E cb \in {"get", "put"} : InSeq(trace', <<"start", t, cb>>)

\* C12: a step in which a transfer of a live session fails, while the session's
\* creator holds its reference, leaves the session alive with a reference
\* count of at least 1, connected and registered as it was, and its queue
\* without the failing transfer.
C12_ErrorKeepsSession ==
    [][\A s \in SessionIds, t \in TransferIds :
          (TransferFailed(s, t) /\ userRefs[s] > 0 /\ sess[s].live = "live")
          => /\ sess'[s].live = "live"
             /\ sess'[s].refcount >= 1
             /\ sess'[s].pending = Without(sess[s].pending, t)
             /\ sess'[s].obex = sess[s].obex
             /\ sess'[s].id = sess[s].id
             /\ sess'[s].path = sess[s].path]_vars

\* C13: a session whose connect callback was told of a failure, of the
\* transport or of the OBEX CONNECT request, is in the registry no more and
\* holds no OBEX stream, so that no later obc_session_create can find it.
C13_FailedConnectDestroys ==
    \A k \in ClosureIds :
        (cbs[k].state = "done" /\ cbs[k].err \notin {"none", "never"}) =>
            /\ ~InSeq(sessions, cbs[k].session)
            /\ sess[cbs[k].session].obex = "none"

\* C14: a step in which a transfer of a live session fails tells the
\* transfer's observers, the agent (Error) or the stored callback (called with
\* the error), and calls no connect callback.
C14_FailureHasOneObserver ==
    [][\A s \in SessionIds, t \in TransferIds :
          (TransferFailed(s, t) /\ sess[s].live = "live")
          => /\ \/ xfers'[t].agError = xfers[t].agError + 1
                \/ /\ xfers'[t].cbCalls = xfers[t].cbCalls + 1
                   /\ xfers'[t].cbErr \notin {"none", "never"}
             /\ \A k \in ClosureIds : cbs'[k].calls = cbs[k].calls]_vars

C16_AgentOwnerGoneShutsDown ==
    [][\A s \in SessionIds :
          ( /\ sess[s].live = "live"
            /\ last'.op = "vanish"
            /\ sess[s].agent.name = last'.ret )
          => /\ sess'[s].pending = <<>>
             /\ \A i \in 1..Len(sess[s].pending) :
                    xfers'[sess[s].pending[i]].state = "unregistered"
             /\ ~sess'[s].path
             /\ sess'[s].id = 0
             /\ sess[s].id > 0 => ~bts'[sess[s].id].reg]_vars

\* C17: no transport connection object is torn down twice: session_destroy
\* has run its teardown at most once for it and sent at most one
\* ReleaseSession, whether bluetooth_disconnect was called again with its id or
\* from inside its result callback on a failure path.
C17_TeardownOnce ==
    \A c \in BtIds :
        /\ bts[c].torn <= 1
        /\ bts[c].released <= 1
        /\ bts[c].torn = 1 => ~bts[c].reg

\* A failure path called the result callback, the callback disconnected the
\* connection, and the teardown that followed in the failure path did nothing.
C17_Witness ==
    \E c \in BtIds :
        /\ bts[c].failed
        /\ bts[c].torn = 1
        /\ \E i, j \in 1..Len(trace) :
                /\ i < j
                /\ trace[i][1] = "func" /\ trace[i][2] = c
                /\ trace[j] = <<"disconnect", c>>

\* C18: a transport connection that was torn down has sent as many
\* ReleaseSession calls as it had issued RequestSession calls (one or none),
\* and a connection not torn down yet has sent none.
C18_LeaseReleasedOnce ==
    \A c \in BtIds :
        /\ bts[c].requested <= 1
        /\ bts[c].torn = 0 => bts[c].released = 0
        /\ bts[c].torn > 0 => bts[c].released = bts[c].requested

\* C19: an obc_session_shutdown of a live session with pending transfers
\* unregisters each of them and tells its observer of the cancellation (Error
\* to the agent, or the stored callback called with an error), leaves the
\* queue empty and the path retracted, and disconnects a transport whose id is
\* above 0, resetting the id.
C19_ShutdownCancelsTransfers ==
    [][\A s \in SessionIds :
          ( /\ sess[s].live = "live"
            /\ sess[s].pending # <<>>
            /\ last'.op = "shutdown" /\ last'.s = s )
          => /\ \A i \in 1..Len(sess[s].pending) :
                    LET t == sess[s].pending[i]
                    IN /\ xfers'[t].state = "unregistered"
                       /\ \/ xfers'[t].agError = xfers[t].agError + 1
                          \/ /\ xfers'[t].cbCalls = xfers[t].cbCalls + 1
                             /\ xfers'[t].cbErr \notin {"none", "never"}
             /\ sess'[s].pending = <<>>
             /\ ~sess'[s].path
             /\ sess'[s].id = 0
             /\ sess[s].id > 0 => ~bts'[sess[s].id].reg]_vars

\* The references held on session s between two handlers: its creator's, one
\* for each transfer of its pending queue, one for each connect callback
\* closure that has not fired yet.
Held(s) ==
    userRefs[s] + Len(sess[s].pending)
    + Cardinality({k \in ClosureIds :
                      /\ cbs[k].session = s
                      /\ cbs[k].state \in {"idle", "waiting", "transport", "obex"}})

\* C20: the reference count of a live session is the number of references held
\* on it, and a session is freed only once none is held.
C20_RefcountMatchesHolders ==
    \A s \in SessionIds :
        /\ sess[s].live = "live" => sess[s].refcount = Held(s)
        /\ sess[s].live = "freed" => Held(s) = 0

\* C21: no transport connection is started for a malformed service UUID: a
\* connection object that exists (adapter lookup sent, and whatever followed)
\* has a service string that bt_string2uuid accepts.
C21_ArgumentErrorsRejected ==
    \A c \in BtIds : bts[c].service # <<>> => bt_string2uuid(bts[c].service)

\* C22: a progress tick of an in-flight transfer that reports its size removes
\* the transfer from the pending queue, sends the agent Complete once (if one
\* is bound and the transfer has a path) and invokes the stored callback once
\* (if there is one) with no error, all in that step; a tick that reports
\* anything else removes nothing and invokes neither.
C22_CompletionOnFullSize ==
    [][\A t \in TransferIds :
        (last'.op = "progress" /\ last'.t = t /\ last'.ret \in {"complete", "tick"}) =>
            LET s == xfers[t].session
                done == last'.ret = "complete"
                agent == done /\ sess[s].agent.name # NoName /\ xfers[t].hasPath
                stored == done /\ sess[s].callback # 0
            IN /\ done => ~InSeq(sess'[s].pending, t)
               /\ ~done => sess'[s].pending = sess[s].pending
               /\ xfers'[t].agComplete = xfers[t].agComplete + (IF agent THEN 1 ELSE 0)
               /\ xfers'[t].cbCalls = xfers[t].cbCalls + (IF stored THEN 1 ELSE 0)
               /\ stored => xfers'[t].cbErr = "none"
               /\ \A u \in TransferIds \ {t} :
                    /\ xfers'[u].cbCalls = xfers[u].cbCalls
                    /\ xfers'[u].agComplete = xfers[u].agComplete]_vars

C22_Witness ==
    /\ last.op = "progress" /\ last.ret = "complete"
    /\ xfers[last.t].agComplete = 1 /\ xfers[last.t].cbCalls = 1
    /\ xfers[last.t].cbErr = "none"
    /\ sess[last.s].live = "live" /\ ~InSeq(sess[last.s].pending, last.t)

\* The authorizations of session s that are outstanding: deferred grants on
\* the idle queue and the agent's pending Request.
Outstanding(s) ==
    Cardinality({i \in 1..Len(idleQ) : idleQ[i].type = "grant" /\ idleQ[i].s = s})
        + (IF sess[s].agent.pending # NoPending THEN 1 ELSE 0)

\* The started transfers of a pending queue are a prefix of it.
StartedInOrder(s) ==
    \A i, j \in 1..Len(sess[s].pending) :
        (i < j /\ xfers[sess[s].pending[j]].starts > 0) =>
            xfers[sess[s].pending[i]].starts > 0

\* C23: the transfers of a session are started in the order in which they were
\* enqueued, and at most one authorization request of a session is
\* outstanding at any time.
C23_FifoStartOneRequest ==
    \A s \in SessionIds :
        sess[s].live = "live" => StartedInOrder(s) /\ Outstanding(s) <= 1

\* C24: in every reachable state a session whose id is greater than 0 has the
\* transport connection object of that id in the transport's registry,
\* connecting or connected.
C24_IdHasConnection ==
    \A s \in SessionIds :
        (sess[s].live = "live" /\ sess[s].id > 0) => bts[sess[s].id].reg

\* The create of closure k found session s connected: nothing is called inside
\* the create, the closure takes a reference and waits on the idle queue.
FoundConnected(k, s) ==
    /\ cbs'[k].state = "idle" /\ cbs'[k].calls = 0
    /\ \A e \in {"none", "never"} : ~InSeq(trace', <<"on_connect", k, e>>)
    /\ idleQ' = Append(idleQ, [type |-> "conn", s |-> s, t |-> k, cb |-> "none"])
    /\ sess'[s].refcount = sess[s].refcount + 1

\* The deferred callback of closure k runs: once, with no error, and the
\* closure's reference is released after it.
DeferredRuns(k, s) ==
    /\ last'.op = "event" /\ idleQ # <<>> /\ Head(idleQ).t = k /\ idleQ' = Tail(idleQ)
    /\ cbs'[k].state = "done" /\ cbs'[k].calls = 1 /\ cbs'[k].err = "none"
    /\ trace'[1] = <<"on_connect", k, "none">>
    /\ IF sess[s].refcount = 1
       THEN sess'[s].live = "freed" /\ trace'[Len(trace')] = <<"free", s>>
       ELSE sess'[s].live = "live" /\ sess'[s].refcount = sess[s].refcount - 1

\* C25: a create that finds a connected session has its on_connect callback
\* invoked exactly once with no error, by an idle source in a later step and
\* never inside the create, and the reference taken for the deferred callback
\* is released after it ran.
C25_DeferredCompletion ==
    /\ [][\A k \in ClosureIds :
            /\ (cbs[k].state = "none" /\ last'.op = "create" /\ last'.t = k
                /\ last'.ret # 0 /\ sess[last'.ret].obex = "connected")
                    => FoundConnected(k, last'.ret)
            /\ (cbs[k].state = "idle" /\ cbs'[k] # cbs[k])
                    => DeferredRuns(k, cbs[k].session)
            /\ (cbs[k].state = "done" /\ cbs[k].found) => cbs'[k] = cbs[k]]_vars
    /\ \A k \in ClosureIds : (cbs[k].state = "idle") ~> (cbs[k].state = "done")

C25_Witness ==
    \E k \in ClosureIds :
        /\ cbs[k].found /\ cbs[k].state = "done" /\ cbs[k].calls = 1
        /\ cbs[k].err = "none" /\ last.op = "event"
        /\ InSeq(trace, <<"on_connect", k, "none">>)
        /\ sess[cbs[k].session].obex = "connected"

\* The connection object c was torn down by session_destroy.
TornDown(c) == bts[c].torn > 0 /\ ~bts[c].reg

\* C26: once a transport connection object is torn down, at whatever stage,
\* its adapter and lease calls are cancelled and its channel is shut down,
\* and from then on no handler changes it and its result callback is not
\* invoked; all that is left to happen is that a watch of its SDP socket
\* fires with G_IO_NVAL and is removed.
C26_NoHandlerAfterTeardown ==
    /\ [](\A c \in BtIds : TornDown(c) => bts[c].call = "none" /\ ~bts[c].ioOpen)
    /\ [][\A c \in BtIds :
            TornDown(c) =>
                /\ bts'[c] = [bts[c] EXCEPT !.watch = bts'[c].watch]
                /\ bts'[c].watch \in {bts[c].watch, "none"}
                /\ bts'[c].calls = bts[c].calls]_vars

C26_Witness ==
    \E c \in BtIds :
        /\ TornDown(c) /\ ~bts[c].failed /\ bts[c].io = "sdp" /\ bts[c].sdp
        /\ bts[c].watch = "none" /\ bts[c].calls = 0 /\ last.op = "event"

\* Closure k's callback is invoked with no error in this step.
ReportsSuccess(k) == cbs'[k].calls = cbs[k].calls + 1 /\ cbs'[k].err = "none"

\* The OBEX CONNECT handshake of k's session has completed with a success
\* response: earlier, or in this step by connect_cb for k's own request.
HandshakeSucceeded(k) ==
    \/ sess[cbs'[k].session].obex = "connected"
    \/ cbs[k].state = "obex" /\ sess[cbs[k].session].obex = "handshake"

\* C27: an on_connect callback is invoked with no error only when the OBEX
\* CONNECT handshake of its session has completed with a success response.
C27_SuccessMeansHandshake ==
    [][\A k \in ClosureIds : ReportsSuccess(k) => HandshakeSucceeded(k)]_vars

\* C28: a session on which obc_session_shutdown has run is not usable as a
\* connection afterwards: get, pull, send and put on it return the
\* not-connected error and register no transfer.
C28_ShutDownNotUsable ==
    [][\A s \in SessionIds :
        (last.op = "shutdown" /\ last.s = s /\ sess[s].live = "live"
         /\ last'.op \in {"get", "send", "put"} /\ last'.s = s) =>
            /\ last'.ret = "-ENOTCONN"
            /\ xfers' = xfers]_vars

\* The authorization of transfer t is granted in this step: its deferred grant
\* is taken off the idle queue and run, or the agent's reply to its Request is
\* handled.
GrantDelivered(t) ==
    \/ /\ idleQ # <<>> /\ Head(idleQ).type = "grant" /\ Head(idleQ).t = t
       /\ idleQ' = Tail(idleQ) /\ last'.op = "event"
    \/ last'.op = "reply" /\ last'.t = t /\ last'.ret = "ok"

\* C29: once obc_session_shutdown has unregistered a pending transfer, no
\* authorization-grant callback and no start entry point is invoked for that
\* transfer, even if its authorization was outstanding at the shutdown.
C29_NoGrantAfterShutdown ==
    [][\A t \in TransferIds :
        xfers[t].state = "unregistered" =>
            ~GrantDelivered(t) /\ xfers'[t].starts = xfers[t].starts]_vars

\* Session s was shut down while its transport connect was in flight, and
\* its creator has released its reference: the closure of the connect is what
\* still holds the session.
ShutDownMidConnect(s) ==
    /\ sess[s].live = "live" /\ userRefs[s] = 0 /\ sess[s].id = 0
    /\ \E k \in ClosureIds : cbs[k].session = s /\ cbs[k].state = "transport"

\* C30: a session shut down while its transport connect is in flight, and
\* released by its creator, is eventually freed.
C30_ShutdownMidConnectFrees ==
    \A s \in SessionIds : ShutDownMidConnect(s) ~> (sess[s].live = "freed")

\* C31: a completion callback supplied to obc_session_get or obc_session_pull
\* is invoked only for the termination of the transfer it was supplied with:
\* every call of a stored callback made by the last handler has the callback's
\* own transfer as the terminating transfer.
C31_CallbackForOwnTransfer ==
    \A i \in 1..Len(trace) :
        (Len(trace[i]) = 4 /\ trace[i][1] = "callback") => trace[i][2] = trace[i][3]

====
